---- MODULE Spec2Model ----
(***************************************************************************)
(* Value-free policy construction (my_policy.py), iterative and exact      *)
(* policy evaluation (policy_eval.py, bellman.py) and the driver run()     *)
(* (run.py, plot_utils.py).                                                *)
(***************************************************************************)
EXTENDS Integers, Sequences, FiniteSets, TLC

VARIABLES
    \* the MDP handed to the constructor (read-only for the program): per state
    \* its tag, whether it is terminal, its legal actions and its transition table
    mdp,
    \* locals and fields of MyPolicy._build
    pc, d, queue, idx, policy,
    \* history of the relaxation: how often each state was enqueued
    enq,
    \* the last query of the policy and its answer
    lastQ, lastA,
    \* parameters and locals of iterative_policy_evaluation, its position, the
    \* number of Bellman updates it has applied and the vector it returned
    P, r, gamma, eps, max_iters, v, v_new, it, epc, applied, ret,
    \* parameter and locals of run, its position, the exception it raised, the
    \* evaluators it called, the arguments plot_policy received and its result
    method, rpc, exc, called, run_v, f_pi, plotted, result

buildVars == <<mdp, pc, d, queue, idx, policy, enq, lastQ, lastA>>
evalVars == <<P, r, gamma, eps, max_iters, v, v_new, it, epc, applied, ret>>
runVars == <<method, rpc, exc, called, run_v, f_pi, plotted, result>>

vars == <<buildVars, evalVars, runVars>>

-----------------------------------------------------------------------------
(* Bounds of the model *)

\* number of states of the MDP: free cells 1..NStates-2, a hazard cell, a sink
NStates == 4

\* the largest number of sweeps an iterative evaluation is allowed
MaxIters == 3

-----------------------------------------------------------------------------
(* Constants of the program *)

UP == "UP"
RIGHT == "RIGHT"
DOWN == "DOWN"
LEFT == "LEFT"
ABSORB == "⊥"

\* math.inf
Inf == 1000000

\* the action order of the relaxation scan
Directions == <<UP, RIGHT, DOWN, LEFT>>

\* the default of MyPolicy.__init__
tie_break == <<RIGHT, DOWN, LEFT, UP>>

Range(f) == {f[i] : i \in DOMAIN f}

-----------------------------------------------------------------------------
(* The MDPs the constructor is run on *)

States == 1..NStates

Hazard == NStates - 1
Sink == NStates
Free == 1..(NStates - 2)

\* enumerate_states(mdp): the states in index order, every one reachable
EnumStates == [i \in 1..NStates |-> i]

\* a transition list from s with destination t, by shape; probabilities in quarters
TransList(shape, s, t) ==
    CASE shape = "det"  -> << <<t, 4>> >>
      [] shape = "slip" -> << <<s, 1>>, <<t, 3>> >>
      [] shape = "tie"  -> << <<t, 2>>, <<s, 2>> >>
      [] OTHER          -> << >>

\* the transition tables of the cells, by name
TransTable(table, s, a) ==
    CASE \* every move goes on to the next cell
         table = "on" ->
            IF a = ABSORB THEN << >> ELSE TransList("det", s, s + 1)
         \* the preferred moves lead to the hazard, the others on
      [] table = "fork" ->
            CASE a = RIGHT -> TransList("det", s, Hazard)
              [] a = UP    -> TransList("det", s, Hazard)
              [] a = DOWN  -> TransList("det", s, s + 1)
              [] a = LEFT  -> TransList("det", s, s + 1)
              [] OTHER     -> << >>
         \* a back edge, a slipping move and a move of even odds
      [] table = "back" ->
            CASE a = RIGHT -> TransList("det", s, 1)
              [] a = DOWN  -> TransList("slip", s, s + 1)
              [] a = UP    -> TransList("tie", s, Sink)
              [] OTHER     -> << >>
         \* two moves lead to the sink, two on
      [] table = "down" ->
            CASE a = DOWN  -> TransList("det", s, Sink)
              [] a = LEFT  -> TransList("det", s, Sink)
              [] a = RIGHT -> TransList("det", s, s + 1)
              [] a = UP    -> TransList("det", s, s + 1)
              [] OTHER     -> << >>
         \* every action, legal or not, leads to the sink
      [] table = "sink" -> TransList("det", s, Sink)
         \* the absorbing action and one move have an effect
      [] table = "absorbRight" ->
            IF a \in {ABSORB, RIGHT} THEN TransList("det", s, Sink) ELSE << >>
         \* one move of even odds leads back to the first cell, the others nowhere
      [] table = "first" ->
            IF a = UP THEN TransList("tie", s, 1) ELSE << >>
         \* one move leads on, one skips a cell, two have no effect
      [] table = "skip" ->
            CASE a = UP   -> TransList("det", s, s + 1)
              [] a = LEFT -> TransList("slip", s, IF s + 2 > Sink THEN Sink ELSE s + 2)
              [] OTHER    -> << >>
         \* one move leads back to the first cell
      [] table = "upFirst" ->
            IF a = UP THEN TransList("det", s, 1) ELSE << >>
      [] OTHER -> << >>

\* the lists mdp.actions(s) may return for a free cell
FreeActs == { << >>, <<RIGHT>>, <<UP, RIGHT, DOWN, LEFT>>, <<LEFT, UP, RIGHT>> }

\* the transition tables a free cell may have
FreeTables == {"on", "fork", "back", "down"}

\* the moves of the grid, all legal at a free cell
AllMoves == <<UP, RIGHT, DOWN, LEFT>>

\* a free cell: never terminal, tagged "S" (the start, state 1) or "F"
FreeCell(s, as, table) ==
    [tag |-> IF s = 1 THEN "S" ELSE "F", term |-> FALSE, acts |-> as, table |-> table]

\* the hazard cell
HazardCells ==
    { [tag |-> "H", term |-> TRUE, acts |-> << >>, table |-> "none"],
      [tag |-> "H", term |-> FALSE, acts |-> <<ABSORB>>, table |-> "sink"],
      [tag |-> "H", term |-> FALSE, acts |-> <<ABSORB, RIGHT>>, table |-> "absorbRight"] }

\* the sink cell
SinkCells ==
    { [tag |-> "⊥", term |-> TRUE, acts |-> <<ABSORB>>, table |-> "none"],
      [tag |-> "G", term |-> TRUE, acts |-> <<ABSORB>>, table |-> "none"],
      [tag |-> "G", term |-> FALSE, acts |-> <<UP>>, table |-> "upFirst"] }

\* the MDP's interface: s[1], mdp.is_terminal(s), mdp.actions(s)
tag(s) == mdp[s].tag
is_terminal(s) == mdp[s].term
actions(s) == mdp[s].acts

\* mdp.transition(s, a): at a free cell an illegal action has no effect, at the
\* hazard and the sink the cell's table answers for every action
transition(s, a) ==
    IF s \in Free /\ a \notin Range(actions(s)) THEN << >>
    ELSE TransTable(mdp[s].table, s, a)

-----------------------------------------------------------------------------
(* MyPolicy *)

\* the hop is not counted
Plus1_Forgotten(x) == x

\* d[s_next] + 1, with math.inf + 1 = math.inf
Plus1(x) == IF x = Inf THEN Inf ELSE x + 1

\* max(succs, key=lambda x: x[1]): the first element of greatest probability
MaxByProb(succs) ==
    LET i == CHOOSE i \in DOMAIN succs :
                 /\ \A j \in DOMAIN succs : succs[j][2] <= succs[i][2]
                 /\ \A j \in 1..(i - 1) : succs[j][2] < succs[i][2]
    IN  succs[i]

_most_likely_successor(s, a) ==
    LET succs == transition(s, a)
    IN  IF succs # << >> THEN MaxByProb(succs)[1] ELSE s

\* the seeding loop: goal and absorbing states, in enumeration order
IsSeed(s) == tag(s) = "G" \/ tag(s) = "⊥"

SeedQueue == SelectSeq(EnumStates, IsSeed)

\* the bound is overwritten whenever the successor matches
Improves_Always(ds, dnext) == TRUE

\* an equal bound is accepted too
Improves_NotStrict(ds, dnext) == ds >= Plus1(dnext)

\* d[s] > d[s_next] + 1: the test that lets the scan tighten d[s] from s_next
Improves(ds, dnext) == ds > Plus1(dnext)

\* the body of the while loop after popleft: the scan over states and actions;
\* k counts the (state, action) pairs; the result is <<d, queue>>
RECURSIVE Scan(_, _, _, _)
Scan(k, s_next, dd, q) ==
    IF k > Len(EnumStates) * Len(Directions) THEN <<dd, q>>
    ELSE LET s == EnumStates[((k - 1) \div Len(Directions)) + 1]
             a == Directions[((k - 1) % Len(Directions)) + 1]
         IN  IF is_terminal(s) THEN Scan(k + 1, s_next, dd, q)
             ELSE IF /\ _most_likely_successor(s, a) = s_next
                     /\ Improves(dd[s], dd[s_next])
                  THEN Scan(k + 1, s_next,
                            [dd EXCEPT ![s] = Plus1(dd[s_next])], Append(q, s))
                  ELSE Scan(k + 1, s_next, dd, q)

\* the place in the scan order instead of the tie-break order
TieIndex_ScanOrder(a) ==
    IF a \in Range(Directions)
    THEN CHOOSE i \in DOMAIN Directions : Directions[i] = a
    ELSE 0

\* tie_break.index(a); 0 stands for the ValueError of an action not in the tuple
TieIndex(a) ==
    IF a \in Range(tie_break)
    THEN CHOOSE i \in DOMAIN tie_break : tie_break[i] = a
    ELSE 0

\* holes are taken at their distance
CandidateD_NoOverride(s_next, dd) == dd[s_next]

\* the goal is taken for the hole
CandidateD_WrongTag(s_next, dd) == IF tag(s_next) = "G" THEN Inf ELSE dd[s_next]

\* the distance the policy loop gives a successor: math.inf for a hole
CandidateD(s_next, dd) == IF tag(s_next) = "H" THEN Inf ELSE dd[s_next]

None == "None"

\* the loop over mdp.actions(s); the result is [a, d, err]
RECURSIVE BestAction(_, _, _, _, _)
BestAction(s, k, best_a, best_d, dd) ==
    IF k > Len(actions(s)) THEN [a |-> best_a, d |-> best_d, err |-> FALSE]
    ELSE LET a == actions(s)[k]
             candidate_d == CandidateD(_most_likely_successor(s, a), dd)
         IN  IF candidate_d < best_d
             THEN BestAction(s, k + 1, a, candidate_d, dd)
             ELSE IF candidate_d = best_d
                  THEN IF best_a = None
                       THEN BestAction(s, k + 1, a, candidate_d, dd)
                       ELSE IF TieIndex(a) = 0 \/ TieIndex(best_a) = 0
                            THEN [a |-> best_a, d |-> best_d, err |-> TRUE]
                            ELSE IF TieIndex(a) < TieIndex(best_a)
                                 THEN BestAction(s, k + 1, a, candidate_d, dd)
                                 ELSE BestAction(s, k + 1, best_a, best_d, dd)
                  ELSE BestAction(s, k + 1, best_a, best_d, dd)

\* the lookup without its default
_decision_NoDefault(s) == IF s \in DOMAIN policy THEN policy[s] ELSE None

\* self._policy.get(s, ABSORB)
_decision(s) == IF s \in DOMAIN policy THEN policy[s] ELSE ABSORB

-----------------------------------------------------------------------------
(* Policy evaluation: bellman.py and policy_eval.py.

   Numbers are exact.  The entries of P and r are counted in quarters and gamma
   in quarters (0, 1/2, 3/4, 1).  An iterate of the evaluation is a vector of
   integers counting units of 1/Unit, where Unit = 4 * 16^MaxIters, so that
   up to MaxIters Bellman updates starting from zero are computed without
   rounding.  A value vector handed to a caller is a record of numerators and
   their common denominator. *)

RECURSIVE Pow(_, _)
Pow(b, k) == IF k = 0 THEN 1 ELSE b * Pow(b, k - 1)

Unit == 4 * Pow(16, MaxIters)

RECURSIVE Dot(_, _, _)
\* row @ x, summed over the first k entries
Dot(row, x, k) == IF k = 0 THEN 0 ELSE row[k] * x[k] + Dot(row, x, k - 1)

\* v_new = r + gamma * (P @ v)
bellman_update(vv, PP, rr, g) ==
    [i \in DOMAIN rr |-> rr[i] * (Unit \div 4) + (g * Dot(PP[i], vv, Len(rr))) \div 16]

Abs(x) == IF x < 0 THEN 0 - x ELSE x

RECURSIVE MaxAbsDiff(_, _, _)
\* np.max(np.abs(a - b)), over the first k entries
MaxAbsDiff(a, b, k) ==
    IF k = 0 THEN 0
    ELSE LET m == MaxAbsDiff(a, b, k - 1)
             x == Abs(a[k] - b[k])
         IN  IF x > m THEN x ELSE m

\* delta < eps * (1 - gamma) / gamma for delta counted in units and gamma > 0:
\* delta * g * eps.den < eps.num * (4 - g) * Unit, without the large product
BelowThreshold(delta, e, g) ==
    LET bound == e.num * (4 - g) * Unit
    IN  bound >= 1 /\ delta * g <= (bound - 1) \div e.den

\* the default of eps, 1e-6
DefaultEps == [num |-> 1, den |-> 1000000]

\* the default of max_iters
DefaultMaxIters == 100000

\* np.zeros_like(r)
Zeros(rr) == [i \in DOMAIN rr |-> 0]

\* a sequence without its k-th element
Without(seq, k) == [i \in 1..(Len(seq) - 1) |-> IF i < k THEN seq[i] ELSE seq[i + 1]]

RECURSIVE Det(_, _, _)
RECURSIVE Expand(_, _, _, _)
\* the expansion of the determinant along the row rows[1], over the first k columns
Expand(A, rows, cols, k) ==
    IF k = 0 THEN 0
    ELSE (IF k % 2 = 1 THEN 1 ELSE 0 - 1)
            * A[rows[1]][cols[k]] * Det(A, Tail(rows), Without(cols, k))
         + Expand(A, rows, cols, k - 1)

\* the determinant of the rows and columns of A listed in rows and cols
Det(A, rows, cols) ==
    IF rows = << >> THEN 1 ELSE Expand(A, rows, cols, Len(cols))

\* I - gamma * P, in sixteenths
SystemMatrix(PP, g) ==
    [i \in DOMAIN PP |-> [j \in DOMAIN PP |-> (IF i = j THEN 16 ELSE 0) - g * PP[i][j]]]

\* np.linalg.solve(I - gamma * P, r) by Cramer's rule; << >> for a singular matrix
exact_policy_evaluation(PP, rr, g) ==
    LET A == SystemMatrix(PP, g)
        n == Len(PP)
        ix == [i \in 1..n |-> i]
        den == Det(A, ix, ix)
        Col(k) == [i \in 1..n |-> [j \in 1..n |-> IF j = k THEN 4 * rr[i] ELSE A[i][j]]]
    IN  IF den = 0 THEN << >>
        ELSE << [num |-> [k \in 1..n |-> Det(Col(k), ix, ix)], den |-> den] >>

\* the evaluation is not running
EvalIdle ==
    /\ P = << >>
    /\ r = << >>
    /\ gamma = 0
    /\ eps = DefaultEps
    /\ max_iters = 0
    /\ v = << >>
    /\ v_new = << >>
    /\ it = 0
    /\ epc = "idle"
    /\ applied = 0
    /\ ret = << >>

\* run is not running
RunIdle ==
    /\ method = ""
    /\ rpc = "idle"
    /\ exc = << >>
    /\ called = {}
    /\ run_v = << >>
    /\ f_pi = << >>
    /\ plotted = << >>
    /\ result = << >>

-----------------------------------------------------------------------------
(* Construction of a policy: MyPolicy.__init__ and _build *)

InitBuild ==
    /\ \E fa \in [Free -> FreeActs], ft \in [Free -> FreeTables] :
       \E hz \in HazardCells, sk \in SinkCells :
          mdp = [s \in States |->
                    IF s = Sink THEN sk
                    ELSE IF s = Hazard THEN hz
                    ELSE FreeCell(s, fa[s], ft[s])]
    /\ pc = "seed"
    /\ d = [s \in States |-> Inf]
    /\ queue = << >>
    /\ idx = 1
    /\ policy = << >>
    /\ enq = [s \in States |-> 0]
    /\ lastQ = 0
    /\ lastA = None
    /\ EvalIdle
    /\ RunIdle

\* how often s stands in the queue q
Count(q, s) == Cardinality({i \in DOMAIN q : q[i] = s})

\* for s in self._states: if s[1] == "G" or s[1] == "⊥": d[s] = 0; queue.append(s)
Seed ==
    /\ pc = "seed"
    /\ d' = [s \in States |-> IF IsSeed(s) THEN 0 ELSE d[s]]
    /\ queue' = SeedQueue
    /\ enq' = [s \in States |-> IF IsSeed(s) THEN enq[s] + 1 ELSE enq[s]]
    /\ pc' = "relax"
    /\ UNCHANGED <<mdp, idx, policy, lastQ, lastA, evalVars, runVars>>

\* one iteration of `while queue`
Relax ==
    /\ pc = "relax"
    /\ queue # << >>
    /\ \E res \in {Scan(1, Head(queue), d, Tail(queue))} :
          /\ d' = res[1]
          /\ queue' = res[2]
    /\ enq' = [s \in States |-> enq[s] + Count(queue', s) - Count(Tail(queue), s)]
    /\ UNCHANGED <<mdp, pc, idx, policy, lastQ, lastA, evalVars, runVars>>

\* the queue is empty: the while loop ends
RelaxDone ==
    /\ pc = "relax"
    /\ queue = << >>
    /\ pc' = "extract"
    /\ UNCHANGED <<mdp, d, queue, idx, policy, enq, lastQ, lastA, evalVars, runVars>>

\* one iteration of the policy loop, for the state self._states[idx]
Extract ==
    /\ pc = "extract"
    /\ idx <= Len(EnumStates)
    /\ LET s == EnumStates[idx]
       IN  IF is_terminal(s)
           THEN /\ idx' = idx + 1
                /\ UNCHANGED <<pc, policy>>
           ELSE \E best \in {BestAction(s, 1, None, Inf, d)} :
                   IF best.err
                   THEN /\ pc' = "ValueError"
                        /\ UNCHANGED <<idx, policy>>
                   ELSE /\ idx' = idx + 1
                        /\ policy' = IF best.a # None THEN policy @@ (s :> best.a) ELSE policy
                        /\ pc' = pc
    /\ UNCHANGED <<mdp, d, queue, enq, lastQ, lastA, evalVars, runVars>>

\* the policy loop ends: the constructor returns
ExtractDone ==
    /\ pc = "extract"
    /\ idx > Len(EnumStates)
    /\ pc' = "built"
    /\ UNCHANGED <<mdp, d, queue, idx, policy, enq, lastQ, lastA, evalVars, runVars>>

\* a state no enumeration holds
Stranger == NStates + 1

\* a caller asks the policy for the action at s
Query ==
    /\ pc = "built"
    /\ \E s \in States \cup {Stranger} :
          /\ lastQ' = s
          /\ lastA' = _decision(s)
    /\ UNCHANGED <<mdp, pc, d, queue, idx, policy, enq, evalVars, runVars>>

NextBuild == Seed \/ Relax \/ RelaxDone \/ Extract \/ ExtractDone \/ Query

SpecBuild == InitBuild /\ [][NextBuild]_vars

-----------------------------------------------------------------------------
(* The relaxation alone: seeding and the while loop.  It reads the transitions
   and the terminal states of the MDP, never mdp.actions, so every move is
   legal at every free cell here. *)

RelaxTables == FreeTables \cup {"first", "skip"}

InitRelax ==
    /\ \E ft \in [Free -> RelaxTables] :
       \E hz \in HazardCells, sk \in SinkCells :
          mdp = [s \in States |->
                    IF s = Sink THEN sk
                    ELSE IF s = Hazard THEN hz
                    ELSE FreeCell(s, AllMoves, ft[s])]
    /\ pc = "seed"
    /\ d = [s \in States |-> Inf]
    /\ queue = << >>
    /\ idx = 1
    /\ policy = << >>
    /\ enq = [s \in States |-> 0]
    /\ lastQ = 0
    /\ lastA = None
    /\ EvalIdle
    /\ RunIdle

NextRelax == Seed \/ Relax \/ RelaxDone

\* the loop is not abandoned half-way
FairRelax == InitRelax /\ [][NextRelax]_vars /\ WF_vars(NextRelax)

-----------------------------------------------------------------------------
(* iterative_policy_evaluation, one pass of its loop at a time *)

\* the construction is not running
BuildIdle ==
    /\ mdp = << >>
    /\ pc = "idle"
    /\ d = << >>
    /\ queue = << >>
    /\ idx = 1
    /\ policy = << >>
    /\ enq = << >>
    /\ lastQ = 0
    /\ lastA = None

\* the discount factors, in quarters: 0, 1/2, 3/4 and 1
Gammas == {0, 2, 3, 4}

\* the tolerances: the default, 1 and 4
EpsValues == {DefaultEps, [num |-> 1, den |-> 1], [num |-> 4, den |-> 1]}

\* a row of a row-stochastic matrix, in quarters, by shape
Row(shape, i) ==
    LET next == (i % NStates) + 1
    IN  [j \in States |->
            CASE shape = "stay"  -> IF j = i THEN 4 ELSE 0
              [] shape = "next"  -> IF j = next THEN 4 ELSE 0
              [] shape = "split" -> IF j = i \/ j = next THEN 2 ELSE 0
              [] OTHER           -> 0]

RowShapes == {"stay", "next", "split"}

\* the reward vectors, in quarters
Rewards ==
    { [i \in States |-> 0],
      [i \in States |-> 4],
      [i \in States |-> IF i = NStates THEN 4 ELSE 0],
      [i \in States |-> IF i = 1 THEN 0 - 4 ELSE 0] }

\* the call iterative_policy_evaluation(P, r, gamma, eps, max_iters) up to v = zeros
InitEval ==
    /\ \E rows \in [States -> RowShapes] : P = [i \in States |-> Row(rows[i], i)]
    /\ r \in Rewards
    /\ gamma \in Gammas
    /\ eps \in EpsValues
    /\ max_iters \in 0..MaxIters
    /\ v = Zeros(r)
    /\ v_new = << >>
    /\ it = 0
    /\ epc = "loop"
    /\ applied = 0
    /\ ret = << >>
    /\ BuildIdle
    /\ RunIdle

\* one pass of `for _ in range(max_iters)`
IterStep ==
    /\ epc = "loop"
    /\ it < max_iters
    /\ v_new' = bellman_update(v, P, r, gamma)
    /\ applied' = applied + 1
    /\ IF gamma = 0
       THEN /\ epc' = "ZeroDivisionError"
            /\ UNCHANGED <<v, it>>
       ELSE IF BelowThreshold(MaxAbsDiff(v_new', v, Len(r)), eps, gamma)
            THEN /\ epc' = "break"
                 /\ UNCHANGED <<v, it>>
            ELSE /\ v' = v_new'
                 /\ it' = it + 1
                 /\ epc' = epc
    /\ UNCHANGED <<P, r, gamma, eps, max_iters, ret, buildVars, runVars>>

\* return v, after a break or after max_iters passes
IterReturn ==
    /\ epc = "break" \/ (epc = "loop" /\ it >= max_iters)
    /\ ret' = v
    /\ epc' = "returned"
    /\ UNCHANGED <<P, r, gamma, eps, max_iters, v, v_new, it, applied, buildVars, runVars>>

NextEval == IterStep \/ IterReturn

SpecEval == InitEval /\ [][NextEval]_vars

-----------------------------------------------------------------------------
(* run(mdp, gamma, rng, method) *)

\* the values of the parameter method
Methods == {"exact", "iterative", "Exact", "value_iteration", ""}

\* the transition tables of the free cells of the MDPs handed to run
RunTables == {"on", "down", "back"}

\* the branch of the if/elif/else on method
Dispatch_DefaultExact(m) ==
    IF m = "iterative" THEN "iterative" ELSE "exact"

Dispatch(m) ==
    IF m = "exact" THEN "exact"
    ELSE IF m = "iterative" THEN "iterative"
    ELSE "ValueError"

\* state_idx = {s: i for i, s in enumerate(states)}
state_idx(s) == CHOOSE i \in DOMAIN EnumStates : EnumStates[i] = s

\* mdp.start_state(): the cell tagged "S"
start_state == 1

RECURSIVE Mass(_, _, _)
\* the probability of reaching t in the first k entries of a transition list
Mass(succs, t, k) ==
    IF k = 0 THEN 0
    ELSE (IF succs[k][1] = t THEN succs[k][2] ELSE 0) + Mass(succs, t, k - 1)

\* the reward on entering a state
Reward(t) == IF tag(t) = "G" THEN 1 ELSE 0

\* build_policy_Pr(mdp, pi, states, state_idx): the row of s under pi(s); an
\* action without effect keeps the state
PolicyRow(s) ==
    LET succs == transition(s, _decision(s))
    IN  IF succs = << >> THEN [j \in States |-> IF j = s THEN 4 ELSE 0]
        ELSE [j \in States |-> Mass(succs, j, Len(succs))]

\* build_policy_Pr(mdp, pi, states, state_idx): the expected reward on entry
PolicyReward(s) ==
    IF transition(s, _decision(s)) = << >> THEN 0
    ELSE Dot(PolicyRow(s), [j \in States |-> Reward(j)], NStates)

\* the attributes of the two objects run holds
Attrs(obj) ==
    CASE obj = "pi"  -> {"mdp", "rng", "tie_break", "_states", "_policy",
                         "_decision", "_most_likely_successor", "_build"}
      [] obj = "mdp" -> {"grid", "start_state", "actions", "transition", "is_terminal"}
      [] OTHER       -> {}

\* plot_policy(policy, ax): mdp = policy.mdp, then the drawing
plot_policy(policy_, ax_) ==
    IF "mdp" \in Attrs(policy_) THEN "drawn" ELSE "AttributeError"

Raise(type, msg) == << [type |-> type, msg |-> msg] >>

InitRun ==
    /\ \E ft \in [Free -> RunTables] :
       \E hz \in HazardCells, sk \in SinkCells :
          mdp = [s \in States |->
                    IF s = Sink THEN sk
                    ELSE IF s = Hazard THEN hz
                    ELSE FreeCell(s, AllMoves, ft[s])]
    /\ pc = "seed"
    /\ d = [s \in States |-> Inf]
    /\ queue = << >>
    /\ idx = 1
    /\ policy = << >>
    /\ enq = [s \in States |-> 0]
    /\ lastQ = 0
    /\ lastA = None
    /\ gamma \in Gammas
    /\ P = << >>
    /\ r = << >>
    /\ eps = DefaultEps
    /\ max_iters = 0
    /\ v = << >>
    /\ v_new = << >>
    /\ it = 0
    /\ epc = "idle"
    /\ applied = 0
    /\ ret = << >>
    /\ method \in Methods
    /\ rpc = "MyPolicy"
    /\ exc = << >>
    /\ called = {}
    /\ run_v = << >>
    /\ f_pi = << >>
    /\ plotted = << >>
    /\ result = << >>

\* pi = MyPolicy(mdp, rng) raised
RunConstructRaises ==
    /\ rpc = "MyPolicy"
    /\ pc = "ValueError"
    /\ exc' = Raise("ValueError", <<"tuple.index(x): x not in tuple">>)
    /\ rpc' = "raised"
    /\ UNCHANGED <<buildVars, evalVars, method, called, run_v, f_pi, plotted, result>>

\* states, state_idx and P, r = build_policy_Pr(mdp, pi, states, state_idx)
RunAssemble ==
    /\ rpc = "MyPolicy"
    /\ pc = "built"
    /\ P' = [i \in DOMAIN EnumStates |-> PolicyRow(EnumStates[i])]
    /\ r' = [i \in DOMAIN EnumStates |-> PolicyReward(EnumStates[i])]
    /\ rpc' = "evaluate"
    /\ UNCHANGED <<buildVars, gamma, eps, max_iters, v, v_new, it, epc, applied, ret,
                   method, exc, called, run_v, f_pi, plotted, result>>

\* if method == "exact": v = exact_policy_evaluation(P, r, gamma)
RunExact ==
    /\ rpc = "evaluate"
    /\ Dispatch(method) = "exact"
    /\ called' = called \cup {"exact_policy_evaluation"}
    /\ \E sol \in {exact_policy_evaluation(P, r, gamma)} :
          IF sol = << >>
          THEN /\ exc' = Raise("LinAlgError", <<"Singular matrix">>)
               /\ rpc' = "raised"
               /\ UNCHANGED run_v
          ELSE /\ run_v' = sol
               /\ rpc' = "fitness"
               /\ UNCHANGED exc
    /\ UNCHANGED <<buildVars, evalVars, method, f_pi, plotted, result>>

\* the largest number of passes followed step by step
MaxPasses == IF DefaultMaxIters < MaxIters THEN DefaultMaxIters ELSE MaxIters

\* elif method == "iterative": iterative_policy_evaluation(P, r, gamma) is entered
RunIterative ==
    /\ rpc = "evaluate"
    /\ Dispatch(method) = "iterative"
    /\ called' = called \cup {"iterative_policy_evaluation"}
    /\ eps' = DefaultEps
    /\ max_iters' = MaxPasses
    /\ v' = Zeros(r)
    /\ it' = 0
    /\ epc' = "loop"
    /\ rpc' = "iterating"
    /\ UNCHANGED <<buildVars, P, r, gamma, v_new, applied, ret,
                   method, exc, run_v, f_pi, plotted, result>>

\* else: raise ValueError(f"Unknown method '{method}'")
RunUnknown ==
    /\ rpc = "evaluate"
    /\ Dispatch(method) = "ValueError"
    /\ exc' = Raise("ValueError", <<"Unknown method '", method, "'">>)
    /\ rpc' = "raised"
    /\ UNCHANGED <<buildVars, evalVars, method, called, run_v, f_pi, plotted, result>>

\* v = the vector iterative_policy_evaluation returned
RunIterativeReturns ==
    /\ rpc = "iterating"
    /\ epc = "returned"
    /\ run_v' = << [num |-> ret, den |-> Unit] >>
    /\ rpc' = "fitness"
    /\ UNCHANGED <<buildVars, evalVars, method, exc, called, f_pi, plotted, result>>

\* iterative_policy_evaluation raised
RunIterativeRaises ==
    /\ rpc = "iterating"
    /\ epc = "ZeroDivisionError"
    /\ exc' = Raise("ZeroDivisionError", <<"float division by zero">>)
    /\ rpc' = "raised"
    /\ UNCHANGED <<buildVars, evalVars, method, called, run_v, f_pi, plotted, result>>

\* s0 = mdp.start_state(); f_pi = v[state_idx[s0]]; print(...)
RunFitness ==
    /\ rpc = "fitness"
    /\ f_pi' = << [num |-> run_v[1].num[state_idx(start_state)], den |-> run_v[1].den] >>
    /\ rpc' = "plot"
    /\ UNCHANGED <<buildVars, evalVars, method, exc, called, run_v, plotted, result>>

\* plot_policy(mdp, pi); return pi, v, f_pi
RunPlot ==
    /\ rpc = "plot"
    /\ plotted' = << [policy |-> "mdp", ax |-> "pi"] >>
    /\ IF plot_policy(plotted'[1].policy, plotted'[1].ax) = "AttributeError"
       THEN /\ exc' = Raise("AttributeError", <<"object has no attribute 'mdp'">>)
            /\ rpc' = "raised"
            /\ UNCHANGED result
       ELSE /\ result' = << [pi |-> policy, v |-> run_v[1], f_pi |-> f_pi[1]] >>
            /\ rpc' = "returned"
            /\ UNCHANGED exc
    /\ UNCHANGED <<buildVars, evalVars, method, called, run_v, f_pi>>

NextRun ==
    \/ Seed \/ Relax \/ RelaxDone \/ Extract \/ ExtractDone
    \/ RunConstructRaises \/ RunAssemble
    \/ RunExact \/ RunIterative \/ RunUnknown
    \/ IterStep \/ IterReturn
    \/ RunIterativeReturns \/ RunIterativeRaises
    \/ RunFitness \/ RunPlot

SpecRun == InitRun /\ [][NextRun]_vars

-----------------------------------------------------------------------------
(* Properties of the constructed policy *)

\* the relaxation loop has finished
Relaxed == pc \in {"extract", "built", "ValueError"}

\* the constructor has returned
Built == pc = "built"

Legal(s) == Range(actions(s))

DirectionSet == Range(Directions)

\* the edges of the most-likely-successor graph that the relaxation follows
Succ(s) ==
    IF is_terminal(s) THEN {}
    ELSE {_most_likely_successor(s, a) : a \in DirectionSet}

\* <<W0, W1, ..>>: Wk holds the states from which a state of T is reached in
\* at most k hops; L is the list so far, k the number of layers still to add
RECURSIVE Layers(_, _)
Layers(L, k) ==
    IF k = 0 THEN L
    ELSE LET W == L[Len(L)]
         IN  Layers(Append(L, W \cup {s \in States : Succ(s) \cap W # {}}), k - 1)

\* the least number of hops from s to a state of the first layer of L, Inf if
\* there is none
MinHops(L, s) ==
    IF s \notin L[Len(L)] THEN Inf
    ELSE (CHOOSE k \in DOMAIN L : s \in L[k] /\ (k = 1 \/ s \notin L[k - 1])) - 1

\* the hop counts of all states to the states of T
HopsTo(T) ==
    CHOOSE h \in {[s \in States |-> MinHops(L, s)] : L \in {Layers(<<T>>, NStates)}} : TRUE

\* the states reached from the states of S in 1..k hops
RECURSIVE After(_, _)
After(S, k) ==
    IF k = 0 THEN {}
    ELSE LET N == UNION {Succ(s) : s \in S}
         IN  N \cup After(N, k - 1)

\* no state lies on a cycle of the most-likely-successor graph
Acyclic == \A s \in States : s \notin After({s}, NStates)

\* every transition list has one successor, of probability 1
Deterministic ==
    \A s \in States : \A a \in DirectionSet \cup {ABSORB} :
        LET succs == transition(s, a)
        IN  succs # << >> => Len(succs) = 1 /\ succs[1][2] = 4

TaggedGoal == {s \in States : tag(s) = "G" \/ tag(s) = "⊥"}

TerminalOrGoal == {s \in States : is_terminal(s) \/ tag(s) = "G"}

\* the place of a in the tie-break order
Place(a) == CHOOSE i \in DOMAIN tie_break : tie_break[i] = a

\* the effective distance of action a at s
Effective(s, a) ==
    LET t == _most_likely_successor(s, a)
    IN  IF tag(t) = "H" THEN Inf ELSE d[t]

\* the states that are to have an entry in the policy
WithEntry == {s \in States : ~is_terminal(s) /\ actions(s) # << >>}

\* C3: the policy never selects an action whose most-likely successor is a hole
\* if some other legal action of the state has a finite effective distance
C3_HoleAvoided ==
    Built =>
        \A s \in DOMAIN policy :
            tag(_most_likely_successor(s, policy[s])) = "H" =>
                \A a \in Legal(s) \ {policy[s]} :
                    ~ (/\ tag(_most_likely_successor(s, a)) # "H"
                       /\ d[_most_likely_successor(s, a)] < Inf)

\* a state with a move into a hole of smaller distance than its chosen successor
C3_Witness ==
    /\ Built
    /\ \E s \in DOMAIN policy : \E a \in Legal(s) :
          LET h == _most_likely_successor(s, a)
              t == _most_likely_successor(s, policy[s])
          IN  /\ tag(h) = "H" /\ tag(t) # "H"
              /\ d[h] < d[t] /\ d[t] < Inf

\* C4 as claimed: in an acyclic deterministic MDP, after the relaxation d[s] is
\* the least number of hops from s to a terminal or goal state
C4_Original ==
    (Relaxed /\ Acyclic /\ Deterministic) =>
        d = HopsTo(TerminalOrGoal)

\* C4 amended: after the relaxation d[s] is the least number of hops from s to a
\* state tagged goal or absorbing, along the most-likely successors of the four
\* moves out of non-terminal states; Inf exactly where there is no such path
C4_DistanceToTagged ==
    Relaxed => d = HopsTo(TaggedGoal)

\* an acyclic deterministic MDP with a state two hops away and a terminal hole
C4_Witness ==
    /\ Relaxed /\ Acyclic /\ Deterministic
    /\ \E s \in States : d[s] = 2
    /\ \E s \in States : d[s] = Inf

\* the goal- and absorbing-tagged states are at 0 and were enqueued once, the
\* other terminal states are at Inf and were never enqueued
SeedsFixed ==
    pc # "seed" =>
        \A s \in States :
            /\ s \in TaggedGoal => d[s] = 0 /\ enq[s] = 1
            /\ (is_terminal(s) /\ s \notin TaggedGoal) => d[s] = Inf /\ enq[s] = 0

\* C5 as claimed: from seeding on every terminal or goal state is at distance 0
\* and was enqueued exactly once
C5_Original ==
    pc # "seed" =>
        \A s \in TerminalOrGoal : d[s] = 0 /\ enq[s] = 1

\* C5 amended: from seeding on every state tagged goal or absorbing is at
\* distance 0 and was enqueued exactly once, every other terminal state stays at
\* Inf and is never enqueued, and no step increases a distance
C5_SeedsFixedDistancesFall ==
    [][ /\ SeedsFixed'
        /\ \A s \in States : d'[s] <= d[s] ]_vars

\* the loop has finished with a seed, a terminal hole and a relaxed state
C5_Witness ==
    /\ Relaxed
    /\ \E s \in TaggedGoal : enq[s] = 1
    /\ \E s \in States : is_terminal(s) /\ tag(s) = "H" /\ d[s] = Inf
    /\ \E s \in States : d[s] > 0 /\ d[s] < Inf /\ enq[s] = 1

\* C6: once built, the policy has an entry for exactly the non-terminal states
\* with a legal action; a query of any other state yields the absorbing action,
\* a query of a state with an entry yields the entry, and no query changes the map
C6_EntriesAndQueries ==
    [][ /\ Built' =>
            /\ DOMAIN policy' = WithEntry
            /\ lastQ' # 0 =>
                   lastA' = IF lastQ' \in WithEntry THEN policy'[lastQ'] ELSE ABSORB
        /\ Built => policy' = policy ]_vars

\* a state without an entry was queried; some state whose every action has an
\* infinite effective distance has an entry, some state has no legal action
C6_Witness ==
    /\ Built
    /\ lastQ # 0 /\ lastQ \notin DOMAIN policy /\ lastA = ABSORB
    /\ \E s \in DOMAIN policy : \A a \in Legal(s) : Effective(s, a) = Inf
    /\ \E s \in States : ~is_terminal(s) /\ actions(s) = << >>

\* C7: the action stored for a state achieves the least effective distance over
\* the legal actions, and is the first in the tie-break order among those that do
C7_MinimumThenTieBreak ==
    Built =>
        \A s \in DOMAIN policy :
            /\ policy[s] \in Legal(s)
            /\ \A a \in Legal(s) : Effective(s, policy[s]) <= Effective(s, a)
            /\ \A a \in Legal(s) \ {policy[s]} :
                  Effective(s, a) = Effective(s, policy[s]) =>
                      Place(policy[s]) < Place(a)

\* two legal actions tie at a finite minimum and the one listed first loses;
\* elsewhere the first action of the tie-break order is legal and is not chosen
C7_Witness ==
    /\ Built
    /\ \E s \in DOMAIN policy :
          /\ actions(s)[1] # policy[s]
          /\ Effective(s, actions(s)[1]) = Effective(s, policy[s])
          /\ Effective(s, policy[s]) < Inf
    /\ \E s \in DOMAIN policy :
          /\ tie_break[1] \in Legal(s)
          /\ policy[s] # tie_break[1]

\* C9: the relaxation loop ends, and after seeding a state is enqueued only when
\* its distance strictly decreases
C9_RelaxationTerminates ==
    /\ <>(pc \notin {"seed", "relax"})
    /\ [][ pc = "relax" =>
              \A s \in States : enq'[s] > enq[s] => d'[s] < d[s] ]_vars

\* the loop has ended on a graph with a cycle and a self-loop
C9_Witness ==
    /\ Relaxed
    /\ \E s \in States : ~is_terminal(s) /\ s \in Succ(s)
    /\ \E s, t \in States : s # t /\ t \in Succ(s) /\ s \in Succ(t)
    /\ \E s \in States : d[s] > 0 /\ d[s] < Inf

\* the state reached from s by k of the policy's most-likely successors
RECURSIVE Follow(_, _)
Follow(s, k) ==
    IF k = 0 THEN s
    ELSE LET t == Follow(s, k - 1)
         IN  _most_likely_successor(t, _decision(t))

HasStepCloser(s) ==
    /\ ~is_terminal(s) /\ d[s] >= 1 /\ d[s] < Inf
    /\ Legal(s) \subseteq DirectionSet
    /\ \E a \in Legal(s) :
          /\ tag(_most_likely_successor(s, a)) # "H"
          /\ d[_most_likely_successor(s, a)] = d[s] - 1

-----------------------------------------------------------------------------
(* Properties of the evaluation and of run *)

\* C1 as claimed: when iterative_policy_evaluation has returned after applying
\* bellman_update at least once, whether it stopped early or used up max_iters,
\* the vector it returned is the result of the last bellman_update it applied.
C1_Original ==
    (epc = "returned" /\ applied >= 1) => ret = v_new

\* the methods run knows
KnownMethods == {"exact", "iterative"}

\* C2: with a method other than "exact" and "iterative", run never calls an
\* evaluator, never binds a value vector or a fitness, never reaches the plot and
\* never returns a result; once the policy is built and run has left the
\* dispatch, it has raised the ValueError whose message holds the method.
C2_UnknownMethodFails ==
    method \notin KnownMethods =>
        /\ called = {}
        /\ epc = "idle"
        /\ run_v = << >>
        /\ f_pi = << >>
        /\ plotted = << >>
        /\ result = << >>
        /\ rpc \in {"MyPolicy", "evaluate", "raised"}
        /\ (rpc = "raised" /\ pc = "built") =>
               /\ exc[1].type = "ValueError"
               /\ exc[1].msg = <<"Unknown method '", method, "'">>
               /\ method \in Range(exc[1].msg)

\* a run with an unknown, non-empty method has built the policy, assembled P and
\* r, and raised
C2_Witness ==
    /\ method \notin KnownMethods
    /\ method # ""
    /\ rpc = "raised"
    /\ pc = "built"
    /\ P # << >>
    /\ exc # << >>

\* C8 as claimed: with method "exact" or "iterative", a run whose evaluator has
\* produced v, and whose fitness v[state_idx[s0]] is computed, ends by returning
\* (pi, v, f_pi), and the plot has received the policy as its policy argument.
C8_Original ==
    (method \in KnownMethods /\ f_pi # << >>) =>
        /\ plotted # << >> => plotted[1].policy = "pi"
        /\ rpc # "raised"
        /\ rpc = "returned" =>
               result = << [pi |-> policy, v |-> run_v[1], f_pi |-> f_pi[1]] >>

====
